---- MODULE Spec2Model ----
(***************************************************************************)
(* FlatBufferConfigLoader (score/mw/com/impl/configuration):               *)
(* CreateConfiguration(path) opens, maps and verifies a FlatBuffer file,   *)
(* runs the four section mappers over the verified root and assembles a    *)
(* Configuration; every failure logs one fatal line and calls              *)
(* std::terminate().                                                       *)
(***************************************************************************)
EXTENDS Integers, Sequences, FiniteSets, TLC

(***************************************************************************)
(* Bounds of the enumerated input files.                                   *)
(***************************************************************************)
MaxServiceTypes == 2
MaxBindings == 2
MaxServiceInstances == 2
MaxInstances == 2
MaxElements == 2
MaxLoads == 2

(***************************************************************************)
(* Program constants.                                                      *)
(***************************************************************************)
\* static_cast<uint8_t>(...) keeps the value modulo 2^8
Uint8Modulus == 256
\* fd_ before open() and after a failed open()
InvalidFd == -1
\* the descriptor open() hands out (any value other than -1)
OpenedFd == 3

DefaultTraceFilterConfigPath == "./etc/mw_com_trace_filter.json"
ConfigPath == "/etc/mw_com_config.bin"

(***************************************************************************)
(* Optional values (nullptr / std::nullopt / unset): <<>> or <<v>>.        *)
(***************************************************************************)
Null == <<>>
Some(v) == <<v>>
IsNull(o) == Len(o) = 0
Get(o) == o[1]

(***************************************************************************)
(* Associative containers: functions; emplace keeps an existing entry.     *)
(***************************************************************************)
EmptyMap == <<>>
HasKey(m, k) == k \in DOMAIN m
\* variant: insert_or_assign, an existing entry is replaced
Emplace_Overwrite(m, k, v) == (k :> v) @@ m

Emplace(m, k, v) == IF HasKey(m, k) THEN m ELSE (k :> v) @@ m

(***************************************************************************)
(* Raw enum values of the wire format.                                     *)
(***************************************************************************)
BindingTypes == {"SHM", "SOME_IP", "OTHER"}
AsilLevels == {"QM", "B", "OUT_OF_RANGE"}

(***************************************************************************)
(* Results of a mapper: a value, or the diagnostic of the fatal branch     *)
(* that ends it.                                                           *)
(***************************************************************************)
Diag(text, path, entity) ==
    [severity |-> "Fatal", context |-> "lola", text |-> text, path |-> path, entity |-> entity]
Ok(v) == [fatal |-> FALSE, value |-> Some(v), diag |-> Null]
Failed(d) == [fatal |-> TRUE, value |-> Null, diag |-> Some(d)]

(***************************************************************************)
(* Pure helpers of the anonymous namespace.                                *)
(***************************************************************************)
\* variant: everything but QM is taken for B
ConvertAsilLevel_NotQM(asil_level) ==
    IF asil_level = "QM" THEN "kASIL_QM" ELSE "kASIL_B"

ConvertAsilLevel(asil_level) ==
    IF asil_level = "B" THEN "kASIL_B" ELSE "kASIL_QM"

StaticCastUint8(v) == v % Uint8Modulus

\* raw > 0 ? optional(value) : nullopt
ZeroIsUnset(raw, value) == IF raw > 0 THEN Some(value) ELSE Null

LolaEventInstanceDeployment(event) ==
    [number_of_sample_slots |-> ZeroIsUnset(event.number_of_sample_slots, event.number_of_sample_slots),
     max_subscribers |-> ZeroIsUnset(event.max_subscribers, StaticCastUint8(event.max_subscribers)),
     max_concurrent_allocations |-> Null,
     enforce_max_samples |-> event.enforce_max_samples,
     number_of_ipc_tracing_slots |-> StaticCastUint8(event.number_of_ipc_tracing_slots)]

RECURSIVE ParseElements(_, _, _)
\* the range-for over a vector of named elements, emplacing each (elements
\* of a verified vector are never null, the `!= nullptr` guard always passes)
ParseElements(elements, i, acc) ==
    IF i > Len(elements) THEN acc
    ELSE ParseElements(elements, i + 1,
                       Emplace(acc, elements[i].name, LolaEventInstanceDeployment(elements[i])))

ParseEventDeployments(instance) ==
    IF IsNull(instance.events) THEN EmptyMap
    ELSE ParseElements(Get(instance.events), 1, EmptyMap)

ParseFieldDeployments(instance) ==
    IF IsNull(instance.fields) THEN EmptyMap
    ELSE ParseElements(Get(instance.fields), 1, EmptyMap)

LolaMethodInstanceDeployment(method) ==
    [queue_size |-> ZeroIsUnset(method.queue_size, StaticCastUint8(method.queue_size))]

RECURSIVE ParseMethods(_, _, _)
ParseMethods(methods, i, acc) ==
    IF i > Len(methods) THEN acc
    ELSE ParseMethods(methods, i + 1,
                      Emplace(acc, methods[i].name, LolaMethodInstanceDeployment(methods[i])))

ParseMethodDeployments(instance) ==
    IF IsNull(instance.methods) THEN EmptyMap
    ELSE ParseMethods(Get(instance.methods), 1, EmptyMap)

ParsePermissions(permissions) ==
    IF IsNull(permissions) THEN EmptyMap
    ELSE LET p == Get(permissions)
             with_qm == IF IsNull(p.qm) THEN EmptyMap
                        ELSE Emplace(EmptyMap, "kASIL_QM", Get(p.qm))
         IN IF IsNull(p.b) THEN with_qm ELSE Emplace(with_qm, "kASIL_B", Get(p.b))

SetMemorySizes(deployment, instance) ==
    [deployment EXCEPT
        !.shared_memory_size_ = ZeroIsUnset(instance.shm_size, instance.shm_size),
        !.control_asil_b_memory_size_ =
            ZeroIsUnset(instance.control_asil_b_shm_size, instance.control_asil_b_shm_size),
        !.control_qm_memory_size_ =
            ZeroIsUnset(instance.control_qm_shm_size, instance.control_qm_shm_size)]

CreateLolaServiceInstanceDeployment(instance) ==
    SetMemorySizes(
        [instance_id |-> ZeroIsUnset(instance.instance_id, instance.instance_id),
         events |-> ParseEventDeployments(instance),
         fields |-> ParseFieldDeployments(instance),
         methods |-> ParseMethodDeployments(instance),
         strict_permission |-> (instance.permission_checks = "STRICT"),
         allowed_consumer |-> ParsePermissions(instance.allowed_consumer),
         allowed_provider |-> ParsePermissions(instance.allowed_provider),
         shared_memory_size_ |-> Null,
         control_asil_b_memory_size_ |-> Null,
         control_qm_memory_size_ |-> Null],
        instance)

make_ServiceIdentifierType(name, major, minor) ==
    [name |-> name, major |-> major, minor |-> minor]

(***************************************************************************)
(* CreateServiceTypes: the loop over com_config_->service_types().         *)
(***************************************************************************)
RECURSIVE ParseIds_LastWins(_, _, _)
\* variant: events[name] = id, a repeated name takes the later id
ParseIds_LastWins(elements, i, acc) ==
    IF i > Len(elements) THEN acc
    ELSE ParseIds_LastWins(elements, i + 1,
                           (elements[i].name :> StaticCastUint8(elements[i].id)) @@ acc)

RECURSIVE ParseIds(_, _, _)
\* events / fields / methods of an SHM type binding: name -> uint8 id
ParseIds(elements, i, acc) ==
    IF i > Len(elements) THEN acc
    ELSE ParseIds(elements, i + 1, Emplace(acc, elements[i].name, StaticCastUint8(elements[i].id)))

IdMapping(elements) ==
    IF IsNull(elements) THEN EmptyMap ELSE ParseIds(Get(elements), 1, EmptyMap)

LolaServiceTypeDeployment(binding) ==
    [service_id |-> binding.service_id,
     events |-> IdMapping(binding.events),
     fields |-> IdMapping(binding.fields),
     methods |-> IdMapping(binding.methods)]

\* binding_info after the loop over service_type->bindings(), entered at
\* index i: blank (Null) for an empty list, else the body's three branches
\* all leave the loop (break for SHM, std::terminate() for the others), so
\* the binding at i decides
ScanTypeBindings(bindings, i) ==
    IF i > Len(bindings) THEN Ok(Null)
    ELSE IF bindings[i].binding = "SHM"
         THEN Ok(Some(LolaServiceTypeDeployment(bindings[i])))
    ELSE IF bindings[i].binding = "SOME_IP"
         THEN Failed(Diag("Provided SOME/IP binding, which is not supported yet.", Null, Null))
    ELSE Failed(Diag("Unknown binding type provided. Required argument.", Null, Null))

\* variant: the result of emplace is not looked at
AlreadyDeployed_Never(deployments, service_identifier) ==
    FALSE

\* !inserted.second
AlreadyDeployed(deployments, service_identifier) ==
    HasKey(deployments, service_identifier)

RECURSIVE ServiceTypesLoop(_, _, _)
ServiceTypesLoop(service_types, i, deployments) ==
    IF i > Len(service_types) THEN Ok(deployments)
    ELSE LET service_type == service_types[i] IN
         IF IsNull(service_type.version)
         THEN Failed(Diag("Service type missing version. Terminating", Null, Null))
         ELSE LET version == Get(service_type.version)
                  service_identifier ==
                      make_ServiceIdentifierType(service_type.service_type_name,
                                                 version.major, version.minor)
                  scan == ScanTypeBindings(service_type.bindings, 1)
              IN IF scan.fatal THEN scan
                 ELSE IF IsNull(Get(scan.value))
                 THEN Failed(Diag("No SHM binding found for Service Type: ",
                                  Null, Some(service_identifier)))
                 ELSE IF AlreadyDeployed(deployments, service_identifier)
                 THEN Failed(Diag("Service Type was deployed twice in FlatBuffer", Null, Null))
                 ELSE ServiceTypesLoop(service_types, i + 1,
                          Emplace(deployments, service_identifier,
                                  [binding_info |-> Get(Get(scan.value))]))

(***************************************************************************)
(* CreateServiceInstances: the loop over com_config_->service_instances(). *)
(***************************************************************************)
\* The strings InstanceSpecifier::Create accepts.
ValidInstanceSpecifiers == {"abs/radar", "abs/lidar"}
InstanceSpecifier_Create(str) ==
    IF str \in ValidInstanceSpecifiers THEN Some(str) ELSE Null

\* variant: the first SHM record ends the scan, as in the service-type mapper
FindShmInstance_BreakAtFirst(instances, i, shm_instance, service_identifier) ==
    IF i > Len(instances) THEN Ok(shm_instance)
    ELSE IF instances[i].binding = "SHM" THEN Ok(Some(instances[i]))
    ELSE IF instances[i].binding = "SOME_IP"
         THEN Failed(Diag("Provided SOME/IP binding, which cannot be parsed.", Null, Null))
    ELSE Failed(Diag("Unknown binding type provided. Required argument.", Null, Null))

RECURSIVE FindShmInstance(_, _, _, _)
\* shm_instance after the loop over service_instance->instances(): the loop
\* has no break, every record is visited
FindShmInstance(instances, i, shm_instance, service_identifier) ==
    IF i > Len(instances) THEN Ok(shm_instance)
    ELSE IF instances[i].binding = "SHM"
         THEN IF ~IsNull(shm_instance)
              THEN Failed(Diag("Multiple SHM bindings for ", Null, Some(service_identifier)))
              ELSE FindShmInstance(instances, i + 1, Some(instances[i]), service_identifier)
    ELSE IF instances[i].binding = "SOME_IP"
         THEN Failed(Diag("Provided SOME/IP binding, which cannot be parsed.", Null, Null))
    ELSE Failed(Diag("Unknown binding type provided. Required argument.", Null, Null))

ServiceInstanceDeployment(service_identifier, binding_info, asil_level, instance_spec) ==
    [service |-> service_identifier, bindingInfo |-> binding_info,
     asilLevel |-> asil_level, instance_specifier |-> instance_spec]

RECURSIVE ServiceInstancesLoop(_, _, _)
ServiceInstancesLoop(entries, i, deployments) ==
    IF i > Len(entries) THEN Ok(deployments)
    ELSE LET service_instance == entries[i]
             instance_spec_result == InstanceSpecifier_Create(service_instance.instance_specifier)
         IN
         IF IsNull(instance_spec_result)
         THEN Failed(Diag("Invalid instance specifier in FlatBuffer. Terminating", Null, Null))
         ELSE LET instance_spec == Get(instance_spec_result)
                  service_identifier ==
                      make_ServiceIdentifierType(service_instance.service_type_name,
                                                 service_instance.version.major,
                                                 service_instance.version.minor)
              IN
              IF IsNull(service_instance.instances) \/ Len(Get(service_instance.instances)) = 0
              THEN Failed(Diag("Service instance missing deployment instances. Terminating",
                               Null, Null))
              ELSE LET found == FindShmInstance(Get(service_instance.instances), 1, Null,
                                                service_identifier)
                   IN IF found.fatal THEN found
                      ELSE IF IsNull(Get(found.value))
                      THEN Failed(Diag("No SHM binding found for ", Null, Some(service_identifier)))
                      ELSE LET shm_instance == Get(Get(found.value))
                               deployment ==
                                   ServiceInstanceDeployment(
                                       service_identifier,
                                       CreateLolaServiceInstanceDeployment(shm_instance),
                                       ConvertAsilLevel(shm_instance.asil_level),
                                       instance_spec)
                           IN ServiceInstancesLoop(entries, i + 1,
                                  Emplace(deployments, instance_spec, deployment))

(***************************************************************************)
(* CreateGlobalConfiguration / CreateTracingConfiguration.  A field of the *)
(* configuration object is Null while no setter has been called on it (the *)
(* default-constructed value) and Some(v) after the setter call with v.    *)
(***************************************************************************)
DefaultGlobalConfiguration ==
    [process_asil_level |-> Null, application_id |-> Null,
     receiver_queue_size_qm |-> Null, receiver_queue_size_b |-> Null,
     sender_queue_size |-> Null, shm_size_calc_mode |-> Null]

GlobalConfigurationOf(com_config) ==
    IF IsNull(com_config.global) THEN DefaultGlobalConfiguration
    ELSE LET global == Get(com_config.global) IN
         [process_asil_level |-> Some(ConvertAsilLevel(global.asil_level)),
          application_id |-> IF global.application_id # 0
                             THEN Some(global.application_id) ELSE Null,
          receiver_queue_size_qm |-> IF IsNull(global.queue_size) THEN Null
                                     ELSE Some(Get(global.queue_size).qm_receiver),
          receiver_queue_size_b |-> IF IsNull(global.queue_size) THEN Null
                                    ELSE Some(Get(global.queue_size).b_receiver),
          sender_queue_size |-> IF IsNull(global.queue_size) THEN Null
                                ELSE Some(Get(global.queue_size).b_sender),
          shm_size_calc_mode |-> Some("kSimulation")]

DefaultTracingConfiguration ==
    [enabled |-> Null, application_instance_id |-> Null, trace_filter_config_path |-> Null]

\* variant: the else branch with the default path is missing
TracingConfigurationOf_NoDefault(com_config) ==
    IF IsNull(com_config.tracing) THEN DefaultTracingConfiguration
    ELSE LET tracing == Get(com_config.tracing) IN
         [enabled |-> Some(tracing.enable),
          application_instance_id |-> Some(tracing.application_instance_id),
          trace_filter_config_path |-> tracing.trace_filter_config_path]

TracingConfigurationOf(com_config) ==
    IF IsNull(com_config.tracing) THEN DefaultTracingConfiguration
    ELSE LET tracing == Get(com_config.tracing) IN
         [enabled |-> Some(tracing.enable),
          application_instance_id |-> Some(tracing.application_instance_id),
          trace_filter_config_path |->
              IF ~IsNull(tracing.trace_filter_config_path)
              THEN Some(Get(tracing.trace_filter_config_path))
              ELSE Some(DefaultTraceFilterConfigPath)]
(***************************************************************************)
(* The files CreateConfiguration is run on.  A file is what open, fstat,   *)
(* mmap, the verifier and GetComConfiguration answer for it, and the       *)
(* ComConfiguration its bytes encode.                                      *)
(***************************************************************************)
SeqsUpTo(S, n) == UNION {[1..k -> S] : k \in 0..n}

\* raw counts around the uint8 range
RawSubscriberCounts == {0, 1, 255, 256, 300}

TypeElement(name, id) == [name |-> name, id |-> id]
TypeBinding(kind, service_id) ==
    [binding |-> kind, service_id |-> service_id,
     events |-> IF kind = "SHM" THEN Some(<<TypeElement("Detections", 3)>>) ELSE Null,
     fields |-> Null, methods |-> Null]
TypeEntry(name, version, bindings) ==
    [service_type_name |-> name, version |-> version, bindings |-> bindings]
Version(major, minor) == [major |-> major, minor |-> minor]

BaseTypeEntry == TypeEntry("Radar", Some(Version(1, 0)), <<TypeBinding("SHM", 17)>>)

\* entries that differ in their identifier only (or lack the version)
IdentifierEntries ==
    {TypeEntry(n, v, <<TypeBinding("SHM", 17)>>) :
        n \in {"Radar", "Lidar"}, v \in {Null, Some(Version(1, 0)), Some(Version(1, 1))}}
BindingChoices ==
    {TypeBinding("SHM", 17), TypeBinding("SHM", 18), TypeBinding("SOME_IP", 0),
     TypeBinding("OTHER", 0)}
\* SHM bindings whose events, fields or methods repeat a name
TypeElementChoices ==
    {TypeElement("Detections", 3), TypeElement("Detections", 4), TypeElement("Objects", 3)}
TypeElementLists == SeqsUpTo(TypeElementChoices, MaxElements)
NamedTypeBindings ==
    {[TypeBinding("SHM", 17) EXCEPT !.events = Some(l)] : l \in TypeElementLists}
    \cup {[TypeBinding("SHM", 17) EXCEPT !.fields = Some(l)] : l \in TypeElementLists}
    \cup {[TypeBinding("SHM", 17) EXCEPT !.methods = Some(l)] : l \in TypeElementLists}
ServiceTypeSections ==
    SeqsUpTo(IdentifierEntries, MaxServiceTypes)
    \cup {<<TypeEntry("Radar", Some(Version(1, 0)), bs)>> :
            bs \in SeqsUpTo(BindingChoices, MaxBindings)}
    \cup {<<TypeEntry("Radar", Some(Version(1, 0)), <<b>>)>> : b \in NamedTypeBindings}

Element(name, slots, subs) ==
    [name |-> name, number_of_sample_slots |-> slots, max_subscribers |-> subs,
     enforce_max_samples |-> TRUE, number_of_ipc_tracing_slots |-> 0]
BaseInstance ==
    [binding |-> "SHM", asil_level |-> "B", instance_id |-> 1,
     events |-> Some(<<Element("Detections", 4, 2)>>), fields |-> Null,
     methods |-> Some(<<[name |-> "Reset", queue_size |-> 0]>>),
     allowed_consumer |-> Some([qm |-> Some(<<1000>>), b |-> Null]),
     allowed_provider |-> Null, permission_checks |-> "STRICT",
     shm_size |-> 0, control_asil_b_shm_size |-> 0, control_qm_shm_size |-> 0]
InstanceOfKind(kind) == [BaseInstance EXCEPT !.binding = kind]
InstanceEntry(specifier, instances) ==
    [instance_specifier |-> specifier, service_type_name |-> "Radar",
     version |-> Version(1, 0), instances |-> instances]
BaseInstanceEntry == InstanceEntry("abs/radar", Some(<<BaseInstance>>))

\* instance records that differ in the numeric "zero means unset" fields
NumericInstances ==
    {[BaseInstance EXCEPT !.instance_id = id, !.asil_level = "QM",
                          !.events = Some(<<Element("Detections", es, em)>>),
                          !.fields = Some(<<Element("Range", fs, fm)>>)] :
        id \in {0, 7}, es \in {0, 5}, em \in RawSubscriberCounts,
        fs \in {0, 9}, fm \in {0, 256}}
    \cup {[BaseInstance EXCEPT !.shm_size = a, !.control_asil_b_shm_size = b,
                               !.control_qm_shm_size = c] :
            a \in {0, 4096}, b \in {0, 2048}, c \in {0, 1024}}
    \cup {[BaseInstance EXCEPT !.asil_level = a] : a \in AsilLevels}
\* entries of several specifiers and ASIL levels
SpecifierEntries ==
    {InstanceEntry(s, Some(<<[BaseInstance EXCEPT !.asil_level = a]>>)) :
        s \in {"abs/radar", "abs/lidar", "abs//radar/"}, a \in {"QM", "B"}}
\* SHM records whose events, fields or methods repeat a name
ElementChoices ==
    {Element("Detections", 4, 2), Element("Detections", 5, 3), Element("Objects", 4, 2)}
MethodChoices ==
    {[name |-> "Reset", queue_size |-> 0], [name |-> "Reset", queue_size |-> 5],
     [name |-> "Stop", queue_size |-> 0]}
NamedInstances ==
    {[BaseInstance EXCEPT !.events = Some(l)] : l \in SeqsUpTo(ElementChoices, MaxElements)}
    \cup {[BaseInstance EXCEPT !.fields = Some(l)] : l \in SeqsUpTo(ElementChoices, MaxElements)}
    \cup {[BaseInstance EXCEPT !.methods = Some(l)] : l \in SeqsUpTo(MethodChoices, MaxElements)}
ServiceInstanceSections ==
    {<<InstanceEntry("abs/radar", Null)>>}
    \cup {<<InstanceEntry("abs/radar", Some(<<inst>>))>> : inst \in NamedInstances}
    \cup {<<InstanceEntry("abs/radar", Some([i \in DOMAIN ks |-> InstanceOfKind(ks[i])]))>> :
            ks \in SeqsUpTo(BindingTypes, MaxInstances)}
    \cup {<<InstanceEntry("abs/radar", Some(<<inst>>))>> : inst \in NumericInstances}
    \cup SeqsUpTo(SpecifierEntries, MaxServiceInstances)

GlobalSections ==
    {Null} \cup
    {Some([asil_level |-> a, application_id |-> id, queue_size |-> q]) :
        a \in AsilLevels, id \in {0, 42},
        q \in {Null, Some([qm_receiver |-> 10, b_receiver |-> 20, b_sender |-> 30])}}
TracingSections ==
    {Null} \cup
    {Some([enable |-> e, application_instance_id |-> "radar_app", trace_filter_config_path |-> p]) :
        e \in BOOLEAN, p \in {Null, Some("./etc/custom_filter.json")}}

BaseContent ==
    [service_types |-> <<BaseTypeEntry>>, service_instances |-> <<BaseInstanceEntry>>,
     global |-> Null, tracing |-> Null]

\* one section varied at a time, and coarse combinations of all four
Contents ==
    {[BaseContent EXCEPT !.service_types = t] : t \in ServiceTypeSections}
    \cup {[BaseContent EXCEPT !.service_instances = i] : i \in ServiceInstanceSections}
    \cup {[BaseContent EXCEPT !.global = g] : g \in GlobalSections}
    \cup {[BaseContent EXCEPT !.tracing = t] : t \in TracingSections}
    \cup {[service_types |-> t, service_instances |-> i, global |-> g, tracing |-> r] :
            t \in {<<BaseTypeEntry>>, <<BaseTypeEntry, BaseTypeEntry>>},
            i \in {<<BaseInstanceEntry>>, <<InstanceEntry("abs/radar", Some(<<>>))>>},
            g \in {Null, Some([asil_level |-> "B", application_id |-> 42, queue_size |-> Null])},
            r \in {Null, Some([enable |-> TRUE, application_instance_id |-> "radar_app",
                               trace_filter_config_path |-> Null])}}

File(exists, stat_ok, st_size, mappable, well_formed, has_root, content) ==
    [path |-> ConfigPath, exists |-> exists, stat_ok |-> stat_ok, st_size |-> st_size,
     mappable |-> mappable, well_formed |-> well_formed, has_root |-> has_root,
     content |-> content]

Files ==
    {File(TRUE, TRUE, 64, TRUE, TRUE, TRUE, c) : c \in Contents}
    \cup {File(e, s, n, m, w, r, BaseContent) :
            e \in BOOLEAN, s \in BOOLEAN, n \in {0, 64}, m \in BOOLEAN,
            w \in BOOLEAN, r \in BOOLEAN}

(***************************************************************************)
(* State.                                                                  *)
(***************************************************************************)
VARIABLES
    file,         \* the file at `path`, unchanged throughout
    pc,           \* position of the current CreateConfiguration call
    fd_,          \* FlatBufferConfigLoader::fd_
    mapped_ptr_,  \* FlatBufferConfigLoader::mapped_ptr_: Null or [ptr, deleter size]
    com_config_,  \* FlatBufferConfigLoader::com_config_: Null or the root
    os,           \* what the process holds and the release calls it has made
    log,          \* the diagnostics emitted by the current process
    results,      \* what each section mapper that has run produced
    config,       \* the Configuration returned by the current call
    loads,        \* outcomes of the earlier calls on the same file
    order         \* the mappers of the current call, in the order they ran

vars == <<file, pc, fd_, mapped_ptr_, com_config_, os, log, results, config, loads, order>>

Mappers == {"service_types", "service_instances", "global", "tracing"}

NoResults == [m \in Mappers |-> Null]
CleanOs == [fd_open |-> FALSE, mapped |-> FALSE, close_calls |-> 0, munmap_calls |-> 0]

Init ==
    /\ file \in Files
    /\ pc = "start"
    /\ fd_ = InvalidFd
    /\ mapped_ptr_ = Null
    /\ com_config_ = Null
    /\ os = CleanOs
    /\ log = <<>>
    /\ results = NoResults
    /\ config = Null
    /\ loads = <<>>
    /\ order = <<>>
(***************************************************************************)
(* The fail-fast pair: LogFatal("lola") << ...; then std::terminate().     *)
(***************************************************************************)
\* variant: the diagnostic is logged and std::terminate() is not called
LogFatal_NoTerminate(d) ==
    /\ log' = Append(log, d)
    /\ pc' = pc

LogFatal(d) ==
    /\ log' = Append(log, d)
    /\ pc' = "fatal"

\* std::terminate(): no destructor runs, no release call is made
Terminate ==
    /\ pc = "fatal"
    /\ pc' = "terminated"
    /\ UNCHANGED <<file, fd_, mapped_ptr_, com_config_, os, log, results, config, loads, order>>

(***************************************************************************)
(* LoadBuffer, run by the constructor, stage by stage.                     *)
(***************************************************************************)
Open ==
    /\ pc = "start"
    /\ \/ /\ file.exists
          /\ fd_' = OpenedFd
          /\ os' = [os EXCEPT !.fd_open = TRUE]
          /\ pc' = "opened"
          /\ UNCHANGED log
       \/ /\ ~file.exists
          /\ fd_' = InvalidFd
          /\ LogFatal(Diag("Failed to open FlatBuffer file: ", Some(file.path), Null))
          /\ UNCHANGED os
    /\ UNCHANGED <<file, mapped_ptr_, com_config_, results, config, loads, order>>

Fstat ==
    /\ pc = "opened"
    /\ \/ /\ file.stat_ok
          /\ pc' = "statted"
          /\ UNCHANGED log
       \/ /\ ~file.stat_ok
          /\ LogFatal(Diag("Failed to stat FlatBuffer file: ", Some(file.path), Null))
    /\ UNCHANGED <<file, fd_, mapped_ptr_, com_config_, os, results, config, loads, order>>

CheckSize ==
    /\ pc = "statted"
    /\ \/ /\ file.st_size # 0
          /\ pc' = "sized"
          /\ UNCHANGED log
       \/ /\ file.st_size = 0
          /\ LogFatal(Diag("FlatBuffer file is empty: ", Some(file.path), Null))
    /\ UNCHANGED <<file, fd_, mapped_ptr_, com_config_, os, results, config, loads, order>>

Mmap ==
    /\ pc = "sized"
    /\ \/ /\ file.mappable
          /\ mapped_ptr_' = Some([ptr |-> "region", size |-> file.st_size])
          /\ os' = [os EXCEPT !.mapped = TRUE]
          /\ pc' = "mapped"
          /\ UNCHANGED log
       \/ /\ ~file.mappable
          /\ LogFatal(Diag("Failed to mmap FlatBuffer file: ", Some(file.path), Null))
          /\ UNCHANGED <<mapped_ptr_, os>>
    /\ UNCHANGED <<file, fd_, com_config_, results, config, loads, order>>

\* variant: the verifier's answer is ignored
VerifierAccepts_Always == TRUE

\* VerifyComConfigurationBuffer(verifier) over the mapped bytes
VerifierAccepts == file.well_formed

Verify ==
    /\ pc = "mapped"
    /\ \/ /\ VerifierAccepts
          /\ pc' = "verified"
          /\ UNCHANGED log
       \/ /\ ~VerifierAccepts
          /\ LogFatal(Diag("FlatBuffer verification failed for: ", Some(file.path), Null))
    /\ UNCHANGED <<file, fd_, mapped_ptr_, com_config_, os, results, config, loads, order>>

GetComConfiguration ==
    /\ pc = "verified"
    /\ \/ /\ file.has_root
          /\ com_config_' = Some(file.content)
          /\ pc' = "loaded"
          /\ UNCHANGED log
       \/ /\ ~file.has_root
          /\ com_config_' = Null
          /\ LogFatal(Diag("Failed to get ComConfiguration from buffer: ", Some(file.path), Null))
    /\ UNCHANGED <<file, fd_, mapped_ptr_, os, results, config, loads, order>>

(***************************************************************************)
(* The four section mappers: the arguments of the Configuration            *)
(* constructor, evaluated one after another in an order the language does  *)
(* not fix.                                                                *)
(***************************************************************************)
\* the containers the mappers fill: locals, empty at every call
service_type_deployments_static ==
    IF Len(loads) > 0 /\ ~IsNull(loads[Len(loads)].config)
    THEN Get(loads[Len(loads)].config).service_types
    ELSE EmptyMap

service_type_deployments_local ==
    EmptyMap

service_instances_local ==
    EmptyMap

\* variant: the fatal branch logs and the mapper returns what it has
Finish_KeepGoing(m, r) ==
    /\ results' = [results EXCEPT ![m] = Some(IF r.fatal THEN Ok(EmptyMap) ELSE r)]
    /\ \/ /\ r.fatal
          /\ log' = Append(log, Get(r.diag))
          /\ UNCHANGED pc
       \/ /\ ~r.fatal
          /\ UNCHANGED <<log, pc>>
    /\ order' = Append(order, m)
    /\ UNCHANGED <<file, fd_, mapped_ptr_, com_config_, os, config, loads>>

\* a mapper's outcome: its value is kept, or its fatal branch logs
Finish(m, r) ==
    /\ results' = [results EXCEPT ![m] = Some(r)]
    /\ \/ /\ r.fatal
          /\ LogFatal(Get(r.diag))
       \/ /\ ~r.fatal
          /\ UNCHANGED <<log, pc>>
    /\ order' = Append(order, m)
    /\ UNCHANGED <<file, fd_, mapped_ptr_, com_config_, os, config, loads>>

CreateServiceTypes ==
    /\ pc = "loaded"
    /\ IsNull(results["service_types"])
    /\ Finish("service_types",
              ServiceTypesLoop(Get(com_config_).service_types, 1, service_type_deployments_local))

\* variant: the instance mapper relies on the service types having been
\* mapped before it
CreateServiceInstances_AfterTypes ==
    /\ pc = "loaded"
    /\ IsNull(results["service_instances"])
    /\ Finish("service_instances",
              IF IsNull(results["service_types"])
              THEN Failed(Diag("Service type of instance not deployed", Null, Null))
              ELSE ServiceInstancesLoop(Get(com_config_).service_instances, 1,
                                        service_instances_local))

CreateServiceInstances ==
    /\ pc = "loaded"
    /\ IsNull(results["service_instances"])
    /\ Finish("service_instances",
              ServiceInstancesLoop(Get(com_config_).service_instances, 1, service_instances_local))

CreateGlobalConfiguration ==
    /\ pc = "loaded"
    /\ IsNull(results["global"])
    /\ results' = [results EXCEPT !["global"] = Some(Ok(GlobalConfigurationOf(Get(com_config_))))]
    /\ order' = Append(order, "global")
    /\ UNCHANGED <<file, pc, fd_, mapped_ptr_, com_config_, os, log, config, loads>>

CreateTracingConfiguration ==
    /\ pc = "loaded"
    /\ IsNull(results["tracing"])
    /\ results' = [results EXCEPT !["tracing"] = Some(Ok(TracingConfigurationOf(Get(com_config_))))]
    /\ order' = Append(order, "tracing")
    /\ UNCHANGED <<file, pc, fd_, mapped_ptr_, com_config_, os, log, config, loads>>

Configuration(service_types, service_instances, global, tracing) ==
    [service_types |-> service_types, service_instances |-> service_instances,
     global |-> global, tracing |-> tracing]

ValueOf(m) == Get(Get(results[m]).value)

\* the Configuration constructor, once all four arguments are evaluated
ConstructConfiguration ==
    /\ pc = "loaded"
    /\ \A m \in Mappers : ~IsNull(results[m])
    /\ config' = Some(Configuration(ValueOf("service_types"), ValueOf("service_instances"),
                                    ValueOf("global"), ValueOf("tracing")))
    /\ pc' = "constructed"
    /\ UNCHANGED <<file, fd_, mapped_ptr_, com_config_, os, log, results, loads, order>>

\* variant: the destructor does not close fd_
Destructor_LeakFd ==
    /\ pc = "constructed"
    /\ pc' = "destroying"
    /\ UNCHANGED <<file, fd_, mapped_ptr_, com_config_, os, log, results, config, loads, order>>

\* ~FlatBufferConfigLoader(): the body
Destructor ==
    /\ pc = "constructed"
    /\ os' = IF fd_ # InvalidFd
             THEN [os EXCEPT !.fd_open = FALSE, !.close_calls = @ + 1]
             ELSE os
    /\ pc' = "destroying"
    /\ UNCHANGED <<file, fd_, mapped_ptr_, com_config_, log, results, config, loads, order>>

\* destruction of mapped_ptr_ after the body: MmapDeleter::operator()
MmapDeleter ==
    /\ pc = "destroying"
    /\ os' = IF ~IsNull(mapped_ptr_) /\ Get(mapped_ptr_).size > 0
             THEN [os EXCEPT !.mapped = FALSE, !.munmap_calls = @ + 1]
             ELSE os
    /\ pc' = "returned"
    /\ UNCHANGED <<file, fd_, mapped_ptr_, com_config_, log, results, config, loads, order>>

(***************************************************************************)
(* A further CreateConfiguration call on the same file: in the same        *)
(* process after a return, in a fresh process after a termination.         *)
(***************************************************************************)
Ended == pc \in {"returned", "terminated"}
Outcome == [terminated |-> pc = "terminated", config |-> config]

NextLoad ==
    /\ Ended
    /\ Len(loads) + 1 < MaxLoads
    /\ loads' = Append(loads, Outcome)
    /\ pc' = "start"
    /\ fd_' = InvalidFd
    /\ mapped_ptr_' = Null
    /\ com_config_' = Null
    /\ os' = CleanOs
    /\ log' = <<>>
    /\ results' = NoResults
    /\ config' = Null
    /\ order' = <<>>
    /\ UNCHANGED file

Next ==
    \/ Open
    \/ Fstat
    \/ CheckSize
    \/ Mmap
    \/ Verify
    \/ GetComConfiguration
    \/ CreateServiceTypes
    \/ CreateServiceInstances
    \/ CreateGlobalConfiguration
    \/ CreateTracingConfiguration
    \/ ConstructConfiguration
    \/ Destructor
    \/ MmapDeleter
    \/ Terminate
    \/ NextLoad

Spec == Init /\ [][Next]_vars
(***************************************************************************)
(* Properties.                                                             *)
(***************************************************************************)
Started(m) == ~IsNull(results[m])
Result(m) == Get(results[m])
MapperStarted == \E m \in Mappers : Started(m)
Acquirable ==
    /\ file.exists /\ file.stat_ok /\ file.st_size # 0 /\ file.mappable
    /\ file.well_formed /\ file.has_root

\* C1: CreateConfiguration never returns a partially valid result: a
\* Configuration is returned only when acquisition, verification, root access
\* and all four mappers completed without a fatal condition, and it is built
\* from the four results; once a fatal diagnostic exists no Configuration is
\* returned and the process is terminating or terminated.
C1_NoPartialResult ==
    /\ ~IsNull(config) =>
          /\ log = <<>>
          /\ Acquirable
          /\ \A m \in Mappers : Started(m) /\ ~Result(m).fatal
          /\ Get(config) = Configuration(ValueOf("service_types"), ValueOf("service_instances"),
                                         ValueOf("global"), ValueOf("tracing"))
    /\ (log # <<>> \/ \E m \in Mappers : Started(m) /\ Result(m).fatal) =>
          /\ IsNull(config)
          /\ pc \in {"fatal", "terminated"}
    /\ pc = "terminated" => IsNull(config)
    /\ pc = "returned" => ~IsNull(config)

C1_Witness ==
    /\ pc = "returned"
    /\ ~IsNull(config)
    /\ DOMAIN Get(config).service_types # {}
    /\ DOMAIN Get(config).service_instances # {}

\* C2: binding exclusivity in the service-instance mapper: an entry whose
\* instance-record list is absent or empty, holds no SHM record, holds two or
\* more SHM records, or holds a SOME_IP or unrecognized record at any
\* position is fatal; the mapper succeeds only when every entry's list is
\* exactly one SHM record.
ShmCount(list) == Cardinality({i \in DOMAIN list : list[i].binding = "SHM"})
EntryBindingFatal(e) ==
    \/ IsNull(e.instances)
    \/ Len(Get(e.instances)) = 0
    \/ ShmCount(Get(e.instances)) = 0
    \/ ShmCount(Get(e.instances)) >= 2
    \/ \E i \in DOMAIN Get(e.instances) : Get(e.instances)[i].binding # "SHM"
ExactlyOneShm(e) ==
    /\ ~IsNull(e.instances)
    /\ Len(Get(e.instances)) = 1
    /\ Get(e.instances)[1].binding = "SHM"
InstanceEntries == file.content.service_instances

C2_BindingExclusivity ==
    Started("service_instances") =>
        /\ (\E i \in DOMAIN InstanceEntries : EntryBindingFatal(InstanceEntries[i]))
              => Result("service_instances").fatal
        /\ ~Result("service_instances").fatal
              => \A i \in DOMAIN InstanceEntries : ExactlyOneShm(InstanceEntries[i])
        /\ (\A i \in DOMAIN InstanceEntries :
                /\ ExactlyOneShm(InstanceEntries[i])
                /\ InstanceEntries[i].instance_specifier \in ValidInstanceSpecifiers)
              => ~Result("service_instances").fatal

\* an SHM record followed by a SOME_IP record
C2_Witness ==
    /\ Started("service_instances")
    /\ Result("service_instances").fatal
    /\ Len(InstanceEntries) = 1
    /\ ~IsNull(InstanceEntries[1].instances)
    /\ Len(Get(InstanceEntries[1].instances)) = 2
    /\ Get(InstanceEntries[1].instances)[1].binding = "SHM"
    /\ Get(InstanceEntries[1].instances)[2].binding = "SOME_IP"

\* C3: service-type uniqueness: two entries with the same (name, major,
\* minor) are fatal, with "Service Type was deployed twice" when the entries
\* are otherwise valid; otherwise valid entries with pairwise distinct
\* identifiers load with exactly one mapping entry per input entry.
TypeEntries == file.content.service_types
TypeEntryValid(e) ==
    /\ ~IsNull(e.version)
    /\ Len(e.bindings) > 0
    /\ \A i \in DOMAIN e.bindings : e.bindings[i].binding = "SHM"
IdOf(e) == [name |-> e.service_type_name, major |-> Get(e.version).major,
            minor |-> Get(e.version).minor]
SameIdentifier(a, b) ==
    /\ ~IsNull(a.version) /\ ~IsNull(b.version)
    /\ a.service_type_name = b.service_type_name
    /\ Get(a.version).major = Get(b.version).major
    /\ Get(a.version).minor = Get(b.version).minor
HasDuplicateType ==
    \E i, j \in DOMAIN TypeEntries : i # j /\ SameIdentifier(TypeEntries[i], TypeEntries[j])
AllTypeEntriesValid == \A i \in DOMAIN TypeEntries : TypeEntryValid(TypeEntries[i])

C3_ServiceTypeUniqueness ==
    Started("service_types") =>
        /\ HasDuplicateType => Result("service_types").fatal
        /\ (HasDuplicateType /\ AllTypeEntriesValid) =>
              Get(Result("service_types").diag).text = "Service Type was deployed twice in FlatBuffer"
        /\ (~HasDuplicateType /\ AllTypeEntriesValid) =>
              /\ ~Result("service_types").fatal
              /\ DOMAIN ValueOf("service_types") = {IdOf(TypeEntries[i]) : i \in DOMAIN TypeEntries}
              /\ Cardinality(DOMAIN ValueOf("service_types")) = Len(TypeEntries)

C3_Witness ==
    /\ Started("service_types")
    /\ Len(TypeEntries) = 2
    /\ AllTypeEntriesValid
    /\ HasDuplicateType
    /\ Result("service_types").fatal
\* C4: zero-sentinel rule: each "zero means unset" field (instance id,
\* event/field sample-slot count, event/field max-subscriber count, the three
\* shm size overrides, application id) maps to unset when the raw value is 0
\* and to exactly the raw value when it is greater than 0, also for raw
\* values beyond the target type such as a max-subscriber count of 256.
Expect(raw) == IF raw = 0 THEN Null ELSE Some(raw)
FirstIndex(list, P(_)) ==
    CHOOSE i \in DOMAIN list : P(list[i]) /\ \A j \in 1..(i - 1) : ~P(list[j])
FirstEntryFor(spec) ==
    LET Is(e) == e.instance_specifier = spec
    IN InstanceEntries[FirstIndex(InstanceEntries, Is)]
FirstNamed(list, name) ==
    LET Is(x) == x.name = name
    IN list[FirstIndex(list, Is)]
ShmRecordOf(e) == Get(e.instances)[1]
InstancesMapped == Started("service_instances") /\ ~Result("service_instances").fatal

C4_SentinelExceptSubscribers ==
    /\ InstancesMapped =>
          \A spec \in DOMAIN ValueOf("service_instances") :
              LET inst == ShmRecordOf(FirstEntryFor(spec))
                  dep == ValueOf("service_instances")[spec].bindingInfo
              IN /\ dep.instance_id = Expect(inst.instance_id)
                 /\ dep.shared_memory_size_ = Expect(inst.shm_size)
                 /\ dep.control_asil_b_memory_size_ = Expect(inst.control_asil_b_shm_size)
                 /\ dep.control_qm_memory_size_ = Expect(inst.control_qm_shm_size)
                 /\ \A name \in DOMAIN dep.events :
                        dep.events[name].number_of_sample_slots =
                            Expect(FirstNamed(Get(inst.events), name).number_of_sample_slots)
                 /\ \A name \in DOMAIN dep.fields :
                        dep.fields[name].number_of_sample_slots =
                            Expect(FirstNamed(Get(inst.fields), name).number_of_sample_slots)
    /\ (Started("global") /\ ~IsNull(file.content.global)) =>
          ValueOf("global").application_id = Expect(Get(file.content.global).application_id)

C4_SubscribersSentinel ==
    InstancesMapped =>
        \A spec \in DOMAIN ValueOf("service_instances") :
            LET inst == ShmRecordOf(FirstEntryFor(spec))
                dep == ValueOf("service_instances")[spec].bindingInfo
            IN /\ \A name \in DOMAIN dep.events :
                      dep.events[name].max_subscribers =
                          Expect(FirstNamed(Get(inst.events), name).max_subscribers)
               /\ \A name \in DOMAIN dep.fields :
                      dep.fields[name].max_subscribers =
                          Expect(FirstNamed(Get(inst.fields), name).max_subscribers)

C4_ZeroSentinel == C4_SentinelExceptSubscribers /\ C4_SubscribersSentinel

\* C5: stage ordering and verifier gate: the root is read and a mapper runs
\* only after the file was opened, sized non-zero, mapped, verified and
\* yielded a root, with descriptor and mapping held; a load that fails one
\* of these stages terminates with no mapper started.
C5_StageOrdering ==
    /\ (MapperStarted \/ ~IsNull(com_config_)) =>
          /\ Acquirable
          /\ fd_ # InvalidFd
          /\ ~IsNull(mapped_ptr_)
          /\ ~IsNull(com_config_)
    /\ pc = "loaded" => os.fd_open /\ os.mapped
    /\ (pc \in {"fatal", "terminated"} /\ ~Acquirable) =>
          /\ ~MapperStarted
          /\ IsNull(com_config_)
          /\ IsNull(config)

\* an empty file: terminated with nothing mapped
C5_Witness ==
    /\ pc = "terminated"
    /\ file.exists /\ file.stat_ok /\ file.st_size = 0
    /\ ~MapperStarted
    /\ IsNull(mapped_ptr_)

\* C6 as stated: whenever a load has ended, by return or by termination, the
\* file handle and the mapping it acquired have each been released exactly
\* once and neither is still held.
C6_ReleasedOnEveryExit ==
    Ended =>
        /\ fd_ # InvalidFd => os.close_calls = 1 /\ ~os.fd_open
        /\ ~IsNull(mapped_ptr_) => os.munmap_calls = 1 /\ ~os.mapped
        /\ os.close_calls <= 1 /\ os.munmap_calls <= 1

\* C6 amended: a load that returns has released handle and mapping exactly
\* once each; a load that ends in std::terminate() has made no release call
\* and still holds whatever it acquired; nothing is ever released twice.
C6_ReleasedOnReturnOnly ==
    /\ os.close_calls <= 1 /\ os.munmap_calls <= 1
    /\ pc = "returned" =>
          /\ os.close_calls = 1 /\ ~os.fd_open
          /\ os.munmap_calls = 1 /\ ~os.mapped
    /\ pc \in {"fatal", "terminated"} =>
          /\ os.close_calls = 0 /\ os.munmap_calls = 0
          /\ os.fd_open <=> fd_ # InvalidFd
          /\ os.mapped <=> ~IsNull(mapped_ptr_)

C6_Witness ==
    /\ pc = "returned"
    /\ os.close_calls = 1
    /\ os.munmap_calls = 1

\* a load terminated after the mapping was made: both still held
C6_TerminatedHolding ==
    /\ pc = "terminated"
    /\ os.fd_open /\ os.mapped
    /\ os.close_calls = 0 /\ os.munmap_calls = 0

\* C7 as stated: every fatal condition emits exactly one fatal diagnostic
\* that names the file path, and the process terminates right after it.
OneDiagnostic ==
    /\ Len(log) <= 1
    /\ pc \in {"fatal", "terminated"} <=> Len(log) = 1
    /\ \A i \in DOMAIN log : log[i].severity = "Fatal"
NamesPath(d) == d.path = Some(file.path)

C7_EveryDiagnosticNamesPath ==
    /\ OneDiagnostic
    /\ \A i \in DOMAIN log : NamesPath(log[i])

\* C7 amended: every fatal condition emits exactly one fatal diagnostic and
\* the very next step is std::terminate() with nothing else changed; the
\* diagnostic names the file path exactly when it comes from LoadBuffer
\* (open, stat, size, mmap, verifier, root), never when it comes from a
\* section mapper.
C7_PathOnlyFromLoadBuffer ==
    /\ OneDiagnostic
    /\ \A i \in DOMAIN log : NamesPath(log[i]) <=> ~MapperStarted

TerminateFollows ==
    pc = "fatal" =>
        /\ pc' = "terminated"
        /\ UNCHANGED <<file, fd_, mapped_ptr_, com_config_, os, log, results, config, loads, order>>

C7_OneDiagnosticThenTerminate ==
    [](C7_PathOnlyFromLoadBuffer) /\ [][TerminateFollows]_vars

\* a mapper's diagnostic, without the path
C7_Witness ==
    /\ pc = "terminated"
    /\ Len(log) = 1
    /\ MapperStarted
    /\ IsNull(log[1].path)

\* C8: defaulting: a present tracing section without trace_filter_config_path
\* maps to "./etc/mw_com_trace_filter.json" and with one to the encoded path;
\* an absent global or tracing section makes no setter call, the mapper
\* returns the default-constructed object, and neither mapper is ever fatal.
C8_Defaulting ==
    /\ Started("tracing") =>
          /\ ~Result("tracing").fatal
          /\ IsNull(file.content.tracing) =>
                \A f \in DOMAIN ValueOf("tracing") : IsNull(ValueOf("tracing")[f])
          /\ ~IsNull(file.content.tracing) =>
                ValueOf("tracing").trace_filter_config_path =
                    IF IsNull(Get(file.content.tracing).trace_filter_config_path)
                    THEN Some("./etc/mw_com_trace_filter.json")
                    ELSE Get(file.content.tracing).trace_filter_config_path
    /\ Started("global") =>
          /\ ~Result("global").fatal
          /\ IsNull(file.content.global) =>
                \A f \in DOMAIN ValueOf("global") : IsNull(ValueOf("global")[f])
    /\ (pc = "returned" /\ IsNull(file.content.global)) =>
          \A f \in DOMAIN Get(config).global : IsNull(Get(config).global[f])
    /\ (pc = "returned" /\ IsNull(file.content.tracing)) =>
          \A f \in DOMAIN Get(config).tracing : IsNull(Get(config).tracing[f])

\* a returned load whose tracing section lacks the path
C8_Witness ==
    /\ pc = "returned"
    /\ IsNull(file.content.global)
    /\ ~IsNull(file.content.tracing)
    /\ IsNull(Get(file.content.tracing).trace_filter_config_path)
    /\ Get(config).tracing.trace_filter_config_path = Some("./etc/mw_com_trace_filter.json")

\* C9: ASIL mapping: in the service-instance mapper and in the global
\* mapper raw B maps to kASIL_B and every other raw value to kASIL_QM.
ExpectedQuality ==
    [a \in AsilLevels |-> IF a = "B" THEN "kASIL_B" ELSE "kASIL_QM"]

C9_AsilMapping ==
    /\ InstancesMapped =>
          \A spec \in DOMAIN ValueOf("service_instances") :
              ValueOf("service_instances")[spec].asilLevel =
                  ExpectedQuality[ShmRecordOf(FirstEntryFor(spec)).asil_level]
    /\ (Started("global") /\ ~IsNull(file.content.global)) =>
          ValueOf("global").process_asil_level =
              Some(ExpectedQuality[Get(file.content.global).asil_level])

C9_Witness ==
    /\ InstancesMapped
    /\ Started("global")
    /\ \E spec \in DOMAIN ValueOf("service_instances") :
          /\ ShmRecordOf(FirstEntryFor(spec)).asil_level = "OUT_OF_RANGE"
          /\ ValueOf("service_instances")[spec].asilLevel = "kASIL_QM"

\* C10: loading the same unchanged file again gives the same outcome: every
\* load terminates, or every load returns an equal Configuration.
C10_SameOutcome ==
    Ended => \A i \in DOMAIN loads : loads[i] = Outcome

C10_Witness ==
    /\ pc = "returned"
    /\ Len(loads) = 1
    /\ loads[1].config = config
    /\ ~IsNull(file.content.global)
\* C11: service-type binding selection: the first SHM binding of an entry's
\* bindings list is the one mapped; a SOME/IP or unrecognized binding
\* anywhere in the list, before or after an SHM binding, is fatal; an entry
\* without an SHM binding is fatal.
HasForeignBinding(e) == \E j \in DOMAIN e.bindings : e.bindings[j].binding # "SHM"
HasNoShmBinding(e) == \A j \in DOMAIN e.bindings : e.bindings[j].binding # "SHM"
FirstShmBinding(e) ==
    LET IsShm(b) == b.binding = "SHM"
    IN e.bindings[FirstIndex(e.bindings, IsShm)]
TypesMapped == Started("service_types") /\ ~Result("service_types").fatal

C11_ForeignBindingAnywhereFatal ==
    Started("service_types") =>
        /\ (\E i \in DOMAIN TypeEntries : HasForeignBinding(TypeEntries[i]))
              => Result("service_types").fatal
        /\ (\E i \in DOMAIN TypeEntries : HasNoShmBinding(TypeEntries[i]))
              => Result("service_types").fatal
        /\ ~Result("service_types").fatal =>
              \A i \in DOMAIN TypeEntries :
                  ValueOf("service_types")[IdOf(TypeEntries[i])].binding_info.service_id =
                      FirstShmBinding(TypeEntries[i]).service_id

\* what the loop does: only a list that starts with an SHM binding passes,
\* and whatever follows that binding is never looked at
C11_FirstBindingDecides ==
    Started("service_types") =>
        /\ (\E i \in DOMAIN TypeEntries :
                \/ IsNull(TypeEntries[i].version)
                \/ Len(TypeEntries[i].bindings) = 0
                \/ TypeEntries[i].bindings[1].binding # "SHM")
              => Result("service_types").fatal
        /\ ((\A i \in DOMAIN TypeEntries :
                /\ ~IsNull(TypeEntries[i].version)
                /\ Len(TypeEntries[i].bindings) > 0
                /\ TypeEntries[i].bindings[1].binding = "SHM")
            /\ ~HasDuplicateType)
              => /\ ~Result("service_types").fatal
                 /\ \A i \in DOMAIN TypeEntries :
                        ValueOf("service_types")[IdOf(TypeEntries[i])].binding_info.service_id =
                            TypeEntries[i].bindings[1].service_id

\* an SHM binding followed by a SOME/IP binding loads
C11_ShmThenSomeIpLoads ==
    /\ pc = "returned"
    /\ Len(TypeEntries) = 1
    /\ Len(TypeEntries[1].bindings) = 2
    /\ TypeEntries[1].bindings[1].binding = "SHM"
    /\ TypeEntries[1].bindings[2].binding = "SOME_IP"
\* C12 as stated: two valid service-instance entries with the same instance
\* specifier are not fatal, the mapping holds one entry for the specifier,
\* and its deployment is the one built from the last such entry.
LastEntryFor(spec) ==
    InstanceEntries[CHOOSE i \in DOMAIN InstanceEntries :
                        /\ InstanceEntries[i].instance_specifier = spec
                        /\ \A j \in DOMAIN InstanceEntries :
                               j > i => InstanceEntries[j].instance_specifier # spec]
DeploymentBuiltFrom(e) ==
    [service |-> [name |-> e.service_type_name, major |-> e.version.major,
                  minor |-> e.version.minor],
     bindingInfo |-> CreateLolaServiceInstanceDeployment(ShmRecordOf(e)),
     asilLevel |-> ExpectedQuality[ShmRecordOf(e).asil_level],
     instance_specifier |-> e.instance_specifier]
AllInstanceEntriesValid ==
    \A i \in DOMAIN InstanceEntries :
        /\ ExactlyOneShm(InstanceEntries[i])
        /\ InstanceEntries[i].instance_specifier \in ValidInstanceSpecifiers
InstanceSpecifiers ==
    {InstanceEntries[i].instance_specifier : i \in DOMAIN InstanceEntries}

C12_LastSpecifierWins ==
    Started("service_instances") =>
        /\ AllInstanceEntriesValid => ~Result("service_instances").fatal
        /\ ~Result("service_instances").fatal =>
              /\ DOMAIN ValueOf("service_instances") = InstanceSpecifiers
              /\ \A spec \in InstanceSpecifiers :
                     ValueOf("service_instances")[spec] = DeploymentBuiltFrom(LastEntryFor(spec))

\* C12 amended: two valid entries with the same instance specifier are not
\* fatal, the mapping holds one entry for the specifier, and its deployment
\* is the one built from the first such entry: emplace leaves the entry that
\* is already there and the later ones are dropped silently.
C12_FirstSpecifierKept ==
    Started("service_instances") =>
        /\ AllInstanceEntriesValid => ~Result("service_instances").fatal
        /\ ~Result("service_instances").fatal =>
              /\ DOMAIN ValueOf("service_instances") = InstanceSpecifiers
              /\ \A spec \in InstanceSpecifiers :
                     ValueOf("service_instances")[spec] = DeploymentBuiltFrom(FirstEntryFor(spec))

\* a returned load of two entries for one specifier, QM first and B second
C12_Witness ==
    /\ pc = "returned"
    /\ Len(InstanceEntries) = 2
    /\ InstanceEntries[1].instance_specifier = InstanceEntries[2].instance_specifier
    /\ ShmRecordOf(InstanceEntries[1]).asil_level = "QM"
    /\ ShmRecordOf(InstanceEntries[2]).asil_level = "B"
    /\ Cardinality(DOMAIN Get(config).service_instances) = 1
    /\ Get(config).service_instances[InstanceEntries[1].instance_specifier].asilLevel = "kASIL_QM"
\* C13: mapper order independence: what each section mapper produces depends
\* on the file alone, not on which mappers ran before it, so under every
\* evaluation order a load of the file terminates or returns alike, and a
\* returned Configuration has the same content.
ResultFor(m) ==
    CASE m = "service_types" -> ServiceTypesLoop(file.content.service_types, 1, EmptyMap)
      [] m = "service_instances" -> ServiceInstancesLoop(file.content.service_instances, 1, EmptyMap)
      [] m = "global" -> Ok(GlobalConfigurationOf(file.content))
      [] m = "tracing" -> Ok(TracingConfigurationOf(file.content))
SomeMapperFatal == \E m \in Mappers : ResultFor(m).fatal
IsPermutation(seq) ==
    /\ Len(seq) = Cardinality(Mappers)
    /\ {seq[i] : i \in DOMAIN seq} = Mappers

C13_OrderIndependent ==
    /\ \A m \in Mappers : Started(m) => Result(m) = ResultFor(m)
    /\ {order[i] : i \in DOMAIN order} = {m \in Mappers : Started(m)}
    /\ (Ended /\ Acquirable) =>
          /\ pc = "terminated" <=> SomeMapperFatal
          /\ pc = "returned" =>
                /\ IsPermutation(order)
                /\ Get(config) = Configuration(Get(ResultFor("service_types").value),
                                               Get(ResultFor("service_instances").value),
                                               Get(ResultFor("global").value),
                                               Get(ResultFor("tracing").value))

\* both the service types and the service instances of the file are fatal;
\* evaluated right to left, the instance mapper is the one that terminates
C13_Witness ==
    /\ pc = "terminated"
    /\ ResultFor("service_types").fatal
    /\ ResultFor("service_instances").fatal
    /\ order = <<"tracing", "global", "service_instances">>
    /\ log = <<Get(ResultFor("service_instances").diag)>>

\* the same file evaluated left to right: the type mapper terminates
C13_LeftToRight ==
    /\ pc = "terminated"
    /\ ResultFor("service_types").fatal
    /\ ResultFor("service_instances").fatal
    /\ order = <<"service_types">>

\* a load that returns after evaluating the mappers right to left
C13_ReturnedRightToLeft ==
    /\ pc = "returned"
    /\ order = <<"tracing", "global", "service_instances", "service_types">>
\* C14: duplicate element names inside one binding are not checked: an SHM
\* type binding or SHM instance record that lists two events, fields or
\* methods of the same name is not fatal, the name-keyed mapping has one
\* entry for the name, and the entry carries the id or parameters of the
\* first occurrence; duplicate service-type identifiers are fatal.
NamesOf(elements) ==
    IF IsNull(elements) THEN {}
    ELSE {Get(elements)[i].name : i \in DOMAIN Get(elements)}
HasRepeatedName(elements) ==
    ~IsNull(elements) /\ Cardinality(NamesOf(elements)) < Len(Get(elements))
IdsOfFirst(mapping, elements) ==
    /\ DOMAIN mapping = NamesOf(elements)
    /\ \A name \in NamesOf(elements) : mapping[name] = FirstNamed(Get(elements), name).id
EventsOfFirst(mapping, elements) ==
    /\ DOMAIN mapping = NamesOf(elements)
    /\ \A name \in NamesOf(elements) :
           LET first == FirstNamed(Get(elements), name)
           IN /\ mapping[name].number_of_sample_slots = Expect(first.number_of_sample_slots)
              /\ mapping[name].max_subscribers =
                     ZeroIsUnset(first.max_subscribers, StaticCastUint8(first.max_subscribers))
              /\ mapping[name].enforce_max_samples = first.enforce_max_samples
MethodsOfFirst(mapping, elements) ==
    /\ DOMAIN mapping = NamesOf(elements)
    /\ \A name \in NamesOf(elements) :
           mapping[name].queue_size = Expect(FirstNamed(Get(elements), name).queue_size)

C14_FirstNameKept ==
    /\ Started("service_types") =>
          /\ HasDuplicateType => Result("service_types").fatal
          /\ (AllTypeEntriesValid /\ ~HasDuplicateType) => ~Result("service_types").fatal
    /\ TypesMapped =>
          \A i \in DOMAIN TypeEntries :
              LET binding == FirstShmBinding(TypeEntries[i])
                  dep == ValueOf("service_types")[IdOf(TypeEntries[i])].binding_info
              IN /\ IdsOfFirst(dep.events, binding.events)
                 /\ IdsOfFirst(dep.fields, binding.fields)
                 /\ IdsOfFirst(dep.methods, binding.methods)
    /\ Started("service_instances") =>
          (AllInstanceEntriesValid => ~Result("service_instances").fatal)
    /\ InstancesMapped =>
          \A spec \in DOMAIN ValueOf("service_instances") :
              LET inst == ShmRecordOf(FirstEntryFor(spec))
                  dep == ValueOf("service_instances")[spec].bindingInfo
              IN /\ EventsOfFirst(dep.events, inst.events)
                 /\ EventsOfFirst(dep.fields, inst.fields)
                 /\ MethodsOfFirst(dep.methods, inst.methods)

\* a returned load whose type binding lists event "Detections" with id 3 and
\* then with id 4
C14_Witness ==
    /\ pc = "returned"
    /\ Len(TypeEntries) = 1
    /\ TypeEntries[1].bindings[1].events =
           Some(<<TypeElement("Detections", 3), TypeElement("Detections", 4)>>)
    /\ LET dep == Get(config).service_types[IdOf(TypeEntries[1])].binding_info
       IN /\ DOMAIN dep.events = {"Detections"}
          /\ dep.events["Detections"] = 3

\* a returned load whose instance record lists event "Detections" twice
C14_InstanceWitness ==
    /\ pc = "returned"
    /\ Len(InstanceEntries) = 1
    /\ HasRepeatedName(ShmRecordOf(InstanceEntries[1]).events)
    /\ Cardinality(DOMAIN Get(config).service_instances["abs/radar"].bindingInfo.events) = 1
====
